---- MODULE Spec2Model ----
(***************************************************************************)
(* A model of WnLRenderer: the Window's context gate (src/src/window.h),   *)
(* the app (src/src/main.cpp) and the GPU resource wrappers and the        *)
(* Renderable of include/wnlrenderer/renderer.h.                           *)
(***************************************************************************)
EXTENDS Integers, Sequences, FiniteSets, TLC

(* ------------------------------ bounds --------------------------------- *)
\* number of client threads that call get_context() concurrently
NClients == 3
\* cap on the number of get_context() calls made by the client threads
MaxCalls == 4

\* number of wrapper objects that are constructed
MaxObjs == 3
\* the GL names of each namespace are 1..MaxName
MaxName == 2
\* coordinates passed to set_position are 0..MaxCoord pixels
MaxCoord == 1
\* sizes passed to set_scale are 1..MaxSize pixels
MaxSize == 2
\* ShaderProgram objects are 1..MaxShaderPrograms
MaxShaderPrograms == 2
\* IndexBuffer objects are 1..MaxIndexBuffers
MaxIndexBuffers == 2
\* set_data is passed 0..MaxIndices indices
MaxIndices == 2
\* a Texture has 1..MaxBufferSize bytes (width_ * height_ * bytes per
\* pixel)
MaxBufferSize == 2
\* the bytes are 0..MaxByte
MaxByte == 1

(* ------------------------------ threads -------------------------------- *)
\* the thread that runs main()
MainThread == 0
\* the std::jthread t started by main()
RenderThread == 1
Clients == 2..(NClients + 1)
Threads == {MainThread, RenderThread} \cup Clients

VARIABLES
    \* ---- Window and GLFW (window.h)
    context_out_,   \* Window::context_out_, the atomic flag
    current,        \* current[t]: the Window's GL context is current on thread t
    tokens,         \* tokens[t]: live OpenGLContext tokens acquired by thread t
    pc,             \* pc[t]: position of thread t
    exc,            \* exc[t]: what() of the last exception thrown on thread t
    nMakeCurrent,   \* calls made to glfwMakeContextCurrent
    nCalls,         \* get_context() calls made by client threads
    \* ---- Renderable (renderer.h:597-607) and what draw() did last
    position_,      \* glm::vec3 position_
    scale_,         \* glm::vec2 scale_
    transform_,     \* glm::mat4 transform_, the cached matrix
    dirty_,         \* bool dirty_
    u_Transform,    \* the matrix last sent as uniform u_Transform
    lastDraw,       \* whether the last draw() recomputed transform_, and
                    \* whether a setter had been called since the draw before
    setterSince,    \* a setter was called since the previous draw()
    posCalled,      \* set_position has been called
    scaleCalled,    \* set_scale has been called
    lastCall,       \* the last Renderable member function called
    glOps,          \* the GL calls issued, in order, by the current frame
    \* ---- GPU resource wrappers (renderer.h:51-406) and the GL names
    obj,            \* obj[o]: the wrapper object o: its kind, its lifetime,
                    \* its handles, whether it was move-constructed
    glLive,         \* glLive[ns]: the names of namespace ns in use
    badDeletes,     \* the names passed to glDelete* while not in use
    \* ---- one call of ShaderProgram's constructor (renderer.h:18-87)
    shPc,           \* position in the constructor
    shSrc,          \* what the two sources and their program are: whether
                    \* each compiles or links, and whether GL has a log
    shObjs,         \* the shader and program objects that exist
    shAttached,     \* the shader objects attached to the program
    shExc,          \* what() of the exception the constructor threw
    \* ---- the app (main.cpp) and GLFW
    glfw,           \* GLFW: "uninit", "init" or "terminated"
    windowState,    \* the GLFWwindow: "none", "alive" or "destroyed"
    closeFlag,      \* the window's close flag (glfwWindowShouldClose)
    pending,        \* input events waiting for glfwWaitEvents
    stopRequested,  \* the jthread's stop token
    gladLoaded,     \* gladLoadGLES2 has run
    resources,      \* the render thread's shader program, mesh, texture and
                    \* renderable: "none", "live" or "released"
    \* ---- ShaderProgram objects and their location caches
    \* (renderer.h:92-149)
    shaderPrograms, \* shaderPrograms[o]: lifetime, shaderProgram_ and the
                    \* two caches of ShaderProgram object o
    glPrograms,     \* glPrograms[p]: the sources program p was linked
                    \* from, which decide the locations of its names
    \* ---- GL's texture units and the program in use, as a three-plane
    \* Renderable draws (renderer.h:538-558)
    shaderInUse,    \* the sources of the program passed to draw()
    samplers,       \* samplers[name]: the value of sampler uniform name
    activeTexture,  \* the active texture unit
    textureUnits,   \* textureUnits[u]: the plane bound to unit u
    \* ---- IndexBuffer objects (renderer.h:190-233) and GL's buffers
    indexBuffers,   \* indexBuffers[o]: lifetime, ibo_ and count_ of
                    \* IndexBuffer object o
    glBuffers,      \* glBuffers[b]: the number of indices in the data
                    \* store of buffer b, for the buffers that have one
    \* ---- one Texture and its staging buffer (renderer.h:324-380)
    texels,         \* the bytes of the texture image
    staging,        \* the bytes of the data store of pbo_
    lastData,       \* the data passed to the last copy_data
    lastMap,        \* what glMapBufferRange returned in the last copy_data
    \* ---- what the getters of the Renderable are compared with
    lastTopLeft     \* the argument of the last set_position(PositionTopLeft)
                    \* when no other setter was called since, else <<>>

ctxVars == <<context_out_, current, tokens, pc, exc, nMakeCurrent, nCalls>>

rendVars == <<position_, scale_, transform_, dirty_, u_Transform, lastDraw,
              setterSince, posCalled, scaleCalled, lastCall>>

resVars == <<obj, glLive, badDeletes>>

shVars == <<shPc, shSrc, shObjs, shAttached, shExc>>

appVars == <<glfw, windowState, closeFlag, pending, stopRequested,
             gladLoaded, resources>>

cacheVars == <<shaderPrograms, glPrograms>>

\* the state of the classes checked on their own
yuvVars == <<shaderInUse, samplers, activeTexture, textureUnits>>

iboVars == <<indexBuffers, glBuffers>>

texVars == <<texels, staging, lastData, lastMap>>

posVars == <<lastTopLeft>>

extVars == <<cacheVars, yuvVars, iboVars, texVars, posVars>>

\* everything but the Window's state
nonCtxVars == <<rendVars, glOps, resVars, shVars, appVars, extVars>>

\* everything but the Renderable's state
nonRendVars == <<ctxVars, resVars, shVars, appVars, extVars>>

\* everything but the wrappers' state
nonResVars == <<ctxVars, rendVars, glOps, shVars, appVars, extVars>>

\* everything but the ShaderProgram constructor's state
nonShVars == <<ctxVars, rendVars, glOps, resVars, appVars, extVars>>

\* what no step of the app touches
nonAppVars == <<resVars, shVars, nCalls, extVars>>

\* what the classes checked on their own leave alone
nonExtVars == <<ctxVars, rendVars, resVars, shVars, appVars>>

vars == <<ctxVars, rendVars, glOps, resVars, shVars, appVars, extVars>>

AlreadyAcquired == "OpenGL context already acquired!"

(* ----------------- std::atomic<bool> (window.h:78, 60) ------------------ *)
\* compare_exchange_strong(expected, desired): the new value of the atomic
\* and whether the exchange took place
CompareExchangeStrong_AlwaysOk(value, expected, desired) ==
    [ok |-> TRUE, value |-> desired]

CompareExchangeStrong_Clobber(value, expected, desired) ==
    IF value = expected THEN [ok |-> TRUE, value |-> desired]
                        ELSE [ok |-> FALSE, value |-> expected]

CompareExchangeStrong(value, expected, desired) ==
    IF value = expected THEN [ok |-> TRUE, value |-> desired]
                        ELSE [ok |-> FALSE, value |-> value]

\* the value ~OpenGLContext stores into context_out_
DtorStoredValue_Stuck == TRUE

DtorStoredValue == FALSE

\* what glfwMakeContextCurrent(nullptr) leaves current on the calling thread
DetachedCurrent_Forgotten(cur) == cur

DetachedCurrent(cur) == FALSE

(* ---------------- where a thread continues (main.cpp) ------------------ *)
\* after get_context() returned its token
AfterGetContext(t) ==
    IF t = MainThread THEN "m_glad_load"
    ELSE IF t = RenderThread THEN "r_setup"
    ELSE "idle"

\* after get_context() threw
AfterThrow(t) ==
    IF t \in Clients THEN "thrown" ELSE "terminate"

\* after the token's destructor returned
AfterTokenDtor(t) ==
    IF t = MainThread THEN "m_spawn"
    ELSE IF t = RenderThread THEN "r_finished"
    ELSE "idle"

(* ------------------- Window::get_context (window.h:76) ----------------- *)
\* lines 77-81: the compare-and-swap gate, throwing when the flag is set
GetContextCAS(t, from) ==
    /\ pc[t] = from
    /\ LET r == CompareExchangeStrong(context_out_, FALSE, TRUE) IN
        /\ context_out_' = r.value
        /\ IF r.ok
           THEN /\ pc' = [pc EXCEPT ![t] = "gc_make_current"]
                /\ tokens' = [tokens EXCEPT ![t] = @ + 1]
                /\ exc' = exc
           ELSE /\ pc' = [pc EXCEPT ![t] = AfterThrow(t)]
                /\ tokens' = tokens
                /\ exc' = [exc EXCEPT ![t] = AlreadyAcquired]
    /\ UNCHANGED <<current, nMakeCurrent>>

\* lines 83-84: glfwMakeContextCurrent(window_.get()); return {*this}
GetContextMakeCurrent(t) ==
    /\ pc[t] = "gc_make_current"
    /\ current' = [current EXCEPT ![t] = TRUE]
    /\ nMakeCurrent' = nMakeCurrent + 1
    /\ pc' = [pc EXCEPT ![t] = AfterGetContext(t)]
    /\ UNCHANGED <<context_out_, tokens, exc>>

(* --------------- ~OpenGLContext (window.h:58-61) ----------------------- *)
\* line 59: glfwMakeContextCurrent(nullptr)
TokenDtorDetach(t, from) ==
    /\ pc[t] = from
    /\ tokens[t] > 0
    /\ current' = [current EXCEPT ![t] = DetachedCurrent(@)]
    /\ nMakeCurrent' = nMakeCurrent + 1
    /\ pc' = [pc EXCEPT ![t] = "dtor_store"]
    /\ UNCHANGED <<context_out_, tokens, exc>>

\* line 60: window_.context_out_.store(false, release)
TokenDtorStore(t) ==
    /\ pc[t] = "dtor_store"
    /\ context_out_' = DtorStoredValue
    /\ tokens' = [tokens EXCEPT ![t] = @ - 1]
    /\ pc' = [pc EXCEPT ![t] = AfterTokenDtor(t)]
    /\ UNCHANGED <<current, exc, nMakeCurrent>>

(* ----------- client threads: any interleaving of the two calls --------- *)
ClientGetContext(t) ==
    /\ t \in Clients
    /\ nCalls < MaxCalls
    /\ nCalls' = nCalls + 1
    /\ GetContextCAS(t, "idle")
    /\ UNCHANGED nonCtxVars

ClientMakeCurrent(t) ==
    /\ t \in Clients
    /\ GetContextMakeCurrent(t)
    /\ UNCHANGED nCalls
    /\ UNCHANGED nonCtxVars

ClientDestroyToken(t) ==
    /\ t \in Clients
    /\ TokenDtorDetach(t, "idle")
    /\ UNCHANGED nCalls
    /\ UNCHANGED nonCtxVars

ClientDtorStore(t) ==
    /\ t \in Clients
    /\ TokenDtorStore(t)
    /\ UNCHANGED nCalls
    /\ UNCHANGED nonCtxVars

\* the caller's handler for the std::runtime_error
ClientCatch(t) ==
    /\ t \in Clients
    /\ pc[t] = "thrown"
    /\ pc' = [pc EXCEPT ![t] = "idle"]
    /\ UNCHANGED <<context_out_, current, tokens, exc, nMakeCurrent, nCalls>>
    /\ UNCHANGED nonCtxVars

CtxInit ==
    /\ context_out_ = FALSE
    /\ current = [t \in Threads |-> FALSE]
    /\ tokens = [t \in Threads |-> 0]
    /\ exc = [t \in Threads |-> ""]
    /\ nMakeCurrent = 0
    /\ nCalls = 0

\* no Renderable exists yet
RendNone ==
    /\ position_ = <<0, 0, 0>>
    /\ scale_ = <<0, 0>>
    /\ transform_ = <<>>
    /\ dirty_ = FALSE
    /\ u_Transform = <<>>
    /\ lastDraw = "none"
    /\ setterSince = FALSE
    /\ posCalled = FALSE
    /\ scaleCalled = FALSE
    /\ lastCall = "none"

(* ---------------- floats and glm (renderer.h:525-529) ------------------ *)
\* A float is modelled by the integer number of half units it holds, so the
\* float 1.0F is FxOne and the halves set_position(PositionTopLeft) produces
\* are exact.
FxOne == 2

Fx(n) == n * FxOne

FxMul(a, b) == (a * b) \div FxOne

FxDiv(a, b) == (a * FxOne) \div b

\* A float has FloatDigits binary digits: the floats are the numbers
\* m * 2^k with m below 2^FloatDigits, and a sum or difference is rounded to
\* the nearest of them, to the one with even m when two are as near.
FloatDigits == 24

Abs(n) == IF n < 0 THEN -n ELSE n

\* the distance between the floats around a number of a half units
FloatQuantum(a) ==
    2^(CHOOSE k \in 0..6 :
            /\ a < 2^(FloatDigits + k)
            /\ k = 0 \/ a >= 2^(FloatDigits + k - 1))

FloatRound(h) ==
    LET a == Abs(h)
        q == FloatQuantum(a)
        n == a \div q
        r == a - n * q
        m == IF 2 * r < q \/ (2 * r = q /\ n % 2 = 0) THEN n ELSE n + 1
    IN  IF h < 0 THEN -(m * q) ELSE m * q

FxAdd(a, b) == FloatRound(a + b)

FxSub(a, b) == FloatRound(a - b)

\* std::round: to the nearest whole number, halves away from zero
StdRound(h) ==
    IF h < 0 THEN -((FxOne - 2 * h) \div (2 * FxOne))
    ELSE (2 * h + FxOne) \div (2 * FxOne)

\* glm::vec4 operations; a glm::mat4 is its four columns
VecScale(c, k) == [i \in 1..4 |-> FxMul(c[i], k)]

VecAdd(a, b) == [i \in 1..4 |-> a[i] + b[i]]

\* glm::mat4(1.0F)
Mat4Identity ==
    <<  <<FxOne, 0, 0, 0>>, <<0, FxOne, 0, 0>>,
        <<0, 0, FxOne, 0>>, <<0, 0, 0, FxOne>>  >>

\* glm::translate(m, v)
GlmTranslate(m, v) ==
    <<  m[1], m[2], m[3],
        VecAdd(VecAdd(VecScale(m[1], v[1]), VecScale(m[2], v[2])),
               VecAdd(VecScale(m[3], v[3]), m[4]))  >>

\* glm::scale(m, v)
GlmScale(m, v) ==
    <<VecScale(m[1], v[1]), VecScale(m[2], v[2]), VecScale(m[3], v[3]), m[4]>>

\* glm operator*(mat4, mat4): column j of a * b is a applied to column j of b
MatVec(a, v) ==
    VecAdd(VecAdd(VecScale(a[1], v[1]), VecScale(a[2], v[2])),
           VecAdd(VecScale(a[3], v[3]), VecScale(a[4], v[4])))

MatMul(a, b) == [j \in 1..4 |-> MatVec(a, b[j])]

\* renderer.h:525-529: the body of if (dirty_)
ComputeTransform_Swapped(position, scale) ==
    LET transMatrix == GlmTranslate(Mat4Identity, position)
        scaleMatrix == GlmScale(Mat4Identity, <<scale[1], scale[2], 0>>)
    IN  MatMul(scaleMatrix, transMatrix)

ComputeTransform(position, scale) ==
    LET transMatrix == GlmTranslate(Mat4Identity, position)
        scaleMatrix == GlmScale(Mat4Identity, <<scale[1], scale[2], 0>>)
    IN  MatMul(transMatrix, scaleMatrix)

(* --------------------- Mesh::draw (renderer.h:440) --------------------- *)
MeshDrawOps_Twice ==
    <<"glBindVertexArray", "glBindBuffer:ibo", "glDrawElements",
      "glDrawElements">>

MeshDrawOps == <<"glBindVertexArray", "glBindBuffer:ibo", "glDrawElements">>

(* ---------------- Renderable (renderer.h:481-608) ---------------------- *)
\* set_position(PositionCenter, position), lines 502-506
RenderableSetPositionCenter(position) ==
    /\ position_' = position
    /\ dirty_' = TRUE
    /\ setterSince' = TRUE
    /\ posCalled' = TRUE
    /\ lastCall' = "set_position"
    /\ UNCHANGED <<scale_, transform_, u_Transform, lastDraw, scaleCalled>>

\* a set_position(PositionTopLeft, position) that stores position as it is
RenderableSetPositionTopLeft_NoOffset(position) ==
    /\ position_' = position
    /\ dirty_' = TRUE
    /\ setterSince' = TRUE
    /\ posCalled' = TRUE
    /\ lastCall' = "set_position"
    /\ UNCHANGED <<scale_, transform_, u_Transform, lastDraw, scaleCalled>>

\* set_position(PositionTopLeft, position), lines 508-514
RenderableSetPositionTopLeft(position) ==
    /\ position_' = <<FxAdd(position[1], FxDiv(scale_[1], Fx(2))),
                      FxAdd(position[2], FxDiv(scale_[2], Fx(2))),
                      position[3]>>
    /\ dirty_' = TRUE
    /\ setterSince' = TRUE
    /\ posCalled' = TRUE
    /\ lastCall' = "set_position"
    /\ UNCHANGED <<scale_, transform_, u_Transform, lastDraw, scaleCalled>>

\* set_scale(scale), lines 516-519
RenderableSetScale(scale) ==
    /\ scale_' = scale
    /\ dirty_' = TRUE
    /\ setterSince' = TRUE
    /\ scaleCalled' = TRUE
    /\ lastCall' = "set_scale"
    /\ UNCHANGED <<position_, transform_, u_Transform, lastDraw, posCalled>>

\* the GL calls of draw(shader) for format != GL_RED, lines 531-535
RenderableDrawOps ==
    <<"glActiveTexture:0", "glBindTexture:y", "glUniform:u_texture",
      "glUniform:u_Transform">> \o MeshDrawOps

\* draw(shader) for format != GL_RED, lines 521-536
RenderableDraw ==
    /\ transform_' = IF dirty_ THEN ComputeTransform(position_, scale_)
                               ELSE transform_
    /\ lastDraw' = IF ~dirty_ THEN "reused"
                   ELSE IF setterSince THEN "recomputed_after_setter"
                   ELSE "recomputed_without_setter"
    /\ u_Transform' = transform_'
    /\ setterSince' = FALSE
    /\ lastCall' = "draw"
    /\ UNCHANGED <<position_, scale_, dirty_, posCalled, scaleCalled>>

(* ------------- a Renderable driven by any sequence of calls ------------ *)
Coords == 0..MaxCoord
Sizes == 1..MaxSize
PositionArgs == {<<Fx(x), Fx(y), 0>> : x \in Coords, y \in Coords}
ScaleArgs == {<<Fx(w), Fx(h)>> : w \in Sizes, h \in Sizes}

CallSetPositionCenter ==
    /\ \E p \in PositionArgs : RenderableSetPositionCenter(p)
    /\ UNCHANGED <<glOps, nonRendVars>>

CallSetPositionTopLeft ==
    /\ \E p \in PositionArgs : RenderableSetPositionTopLeft(p)
    /\ UNCHANGED <<glOps, nonRendVars>>

CallSetScale ==
    /\ \E s \in ScaleArgs : RenderableSetScale(s)
    /\ UNCHANGED <<glOps, nonRendVars>>

CallDraw ==
    /\ RenderableDraw
    /\ glOps' = RenderableDrawOps
    /\ UNCHANGED nonRendVars

\* Renderable's constructor (lines 482-488): transform_(1.0F), dirty_{};
\* position_ and scale_ are left uninitialized and hold any value
RendInit ==
    /\ position_ \in PositionArgs
    /\ scale_ \in ScaleArgs
    /\ transform_ = Mat4Identity
    /\ dirty_ = FALSE
    /\ u_Transform = <<>>
    /\ lastDraw = "none"
    /\ setterSince = FALSE
    /\ posCalled = FALSE
    /\ scaleCalled = FALSE
    /\ lastCall = "none"

(* ------------- the getters (renderer.h:560-576) ------------------------ *)
\* the conversion of the rounded floats to std::pair<uint32_t, uint32_t>
\* is defined for the numbers 0..2^32-1
IsUint32(n) == n >= 0 /\ n \div 2^16 < 2^16

\* get_size(), lines 560-563
RenderableGetSize == <<StdRound(scale_[1]), StdRound(scale_[2])>>

\* get_position(PositionCenter), lines 565-568
RenderableGetPositionCenter ==
    <<StdRound(position_[1]), StdRound(position_[2])>>

\* get_position(PositionTopLeft), lines 570-576
RenderableGetPositionTopLeft ==
    LET top_left_x == FxSub(position_[1], FxDiv(scale_[1], Fx(2)))
        top_left_y == FxSub(position_[2], FxDiv(scale_[2], Fx(2)))
    IN  <<StdRound(top_left_x), StdRound(top_left_y)>>

\* the coordinates passed to set_position when the getters are checked:
\* the small ones and one past the last whole number below which every
\* half is a float
BigCoord == 2^(FloatDigits - 1) + 1
PosCoords == Coords \cup {BigCoord}
PosArgs == {<<Fx(x), Fx(y), 0>> : x \in PosCoords, y \in PosCoords}

PosSetPositionTopLeft ==
    /\ \E p \in PosArgs :
        /\ RenderableSetPositionTopLeft(p)
        /\ lastTopLeft' = p
    /\ UNCHANGED <<glOps, ctxVars, resVars, shVars, appVars>>
    /\ UNCHANGED <<cacheVars, yuvVars, iboVars, texVars>>

PosSetPositionCenter ==
    /\ \E p \in PosArgs : RenderableSetPositionCenter(p)
    /\ lastTopLeft' = <<>>
    /\ UNCHANGED <<glOps, ctxVars, resVars, shVars, appVars>>
    /\ UNCHANGED <<cacheVars, yuvVars, iboVars, texVars>>

PosSetScale ==
    /\ \E s \in ScaleArgs : RenderableSetScale(s)
    /\ lastTopLeft' = <<>>
    /\ UNCHANGED <<glOps, ctxVars, resVars, shVars, appVars>>
    /\ UNCHANGED <<cacheVars, yuvVars, iboVars, texVars>>

\* set_position(PositionTopLeft) was not called
PosNone == lastTopLeft = <<>>

(* ------------- GPU resource wrappers (renderer.h:51-406) --------------- *)
Kinds == {"ShaderProgram", "VertexBuffer", "IndexBuffer", "VertexArray",
          "Texture"}

\* the handle fields of a wrapper: shaderProgram_ | vbo_ | ibo_ | vao_ |
\* textureId_, pbo_
Fields(kind) == IF kind = "Texture" THEN {1, 2} ELSE {1}

\* the GL namespace a handle field draws its names from
Namespace(kind, f) ==
    CASE kind = "ShaderProgram" -> "program"
      [] kind = "VertexBuffer"  -> "buffer"
      [] kind = "IndexBuffer"   -> "buffer"
      [] kind = "VertexArray"   -> "vertex_array"
      [] kind = "Texture"       -> IF f = 1 THEN "texture" ELSE "buffer"

Namespaces == {"program", "buffer", "vertex_array", "texture"}
Names == 1..MaxName
Objs == 1..MaxObjs

\* a wrapper that has not been constructed
Unborn == [kind |-> "none", state |-> "unborn", h |-> <<0, 0>>, moved |-> FALSE]

\* std::exchange(obj, new_value): the value returned and the value left
StdExchange_Copy(old, new) == [ret |-> old, left |-> old]

StdExchange(old, new) == [ret |-> old, left |-> new]

\* std::ranges::swap(other.h, h): the values left in <<h, other.h>>
StdSwap_Steal(mine, others) == <<others, 0>>

StdSwap(mine, others) == <<others, mine>>

\* glGen*/glCreateProgram returning name n of namespace ns
GlGenerated(live, ns, n) == [live EXCEPT ![ns] = @ \cup {n}]

\* glDelete*(n): name 0 is silently ignored; a name that is not in use has
\* been released before
GlDeleted(live, bad, ns, n) ==
    IF n = 0 THEN [live |-> live, bad |-> bad]
    ELSE [live |-> [live EXCEPT ![ns] = @ \ {n}],
          bad |-> IF n \in live[ns] THEN bad ELSE bad \cup {<<ns, n>>}]

\* the first object not yet constructed
NextObj == CHOOSE o \in Objs : obj[o].state = "unborn" /\
                \A q \in Objs : q < o => obj[q].state # "unborn"

HasUnborn == \E o \in Objs : obj[o].state = "unborn"

\* VertexBuffer(), IndexBuffer(), VertexArray(vbo, layout) and, with a
\* program that links, ShaderProgram(vs, fs): one name is generated
\* (renderer.h:57, 154, 192, 274)
Construct(kind) ==
    /\ kind \in Kinds \ {"Texture"}
    /\ HasUnborn
    /\ \E n \in Names \ glLive[Namespace(kind, 1)] :
        /\ glLive' = GlGenerated(glLive, Namespace(kind, 1), n)
        /\ obj' = [obj EXCEPT ![NextObj] =
                    [kind |-> kind, state |-> "live", h |-> <<n, 0>>,
                     moved |-> FALSE]]
    /\ UNCHANGED badDeletes

\* Texture(width, height): glGenBuffers(1, &pbo_), glGenTextures(1,
\* &textureId_) (renderer.h:333, 338)
ConstructTexture ==
    /\ HasUnborn
    /\ \E p \in Names \ glLive["buffer"], n \in Names \ glLive["texture"] :
        /\ glLive' = GlGenerated(GlGenerated(glLive, "buffer", p),
                                 "texture", n)
        /\ obj' = [obj EXCEPT ![NextObj] =
                    [kind |-> "Texture", state |-> "live", h |-> <<n, p>>,
                     moved |-> FALSE]]
    /\ UNCHANGED badDeletes

\* ShaderProgram(vs, fs) with a program that fails to link: the program is
\* deleted and the constructor throws (renderer.h:72-86)
ConstructProgramLinkError ==
    /\ HasUnborn
    /\ \E n \in Names \ glLive["program"] :
        LET d == GlDeleted(GlGenerated(glLive, "program", n), badDeletes,
                           "program", n) IN
        /\ glLive' = d.live
        /\ badDeletes' = d.bad
        /\ obj' = [obj EXCEPT ![NextObj] =
                    [kind |-> "ShaderProgram", state |-> "failed",
                     h |-> <<0, 0>>, moved |-> FALSE]]

\* the move constructors: h(std::exchange(other.h, 0))
\* (renderer.h:92, 164, 202, 298, 389)
MoveConstruct(src) ==
    /\ HasUnborn
    /\ obj[src].state = "live"
    /\ LET x == [f \in {1, 2} |-> StdExchange(obj[src].h[f], 0)] IN
        obj' = [obj EXCEPT
                  ![NextObj] = [kind |-> obj[src].kind, state |-> "live",
                                h |-> <<x[1].ret, x[2].ret>>,
                                moved |-> TRUE],
                  ![src].h = <<x[1].left, x[2].left>>]
    /\ UNCHANGED <<glLive, badDeletes>>

\* the move assignments dst = std::move(src): std::ranges::swap of every
\* handle (renderer.h:96, 168, 206, 302, 394); src may be dst
MoveAssign(dst, src) ==
    /\ obj[dst].state = "live"
    /\ obj[src].state = "live"
    /\ obj[dst].kind = obj[src].kind
    /\ LET w == [f \in {1, 2} |-> StdSwap(obj[dst].h[f], obj[src].h[f])] IN
        \* other.h is written first and h last, which matters when
        \* other is *this
        obj' = [[obj EXCEPT ![src].h = <<w[1][2], w[2][2]>>]
                     EXCEPT ![dst].h = <<w[1][1], w[2][1]>>]
    /\ UNCHANGED <<glLive, badDeletes>>

\* the destructors: glDelete* of every handle
\* (renderer.h:101, 157, 195, 292, 382)
Destroy(o) ==
    /\ obj[o].state = "live"
    /\ LET k == obj[o].kind
           d1 == GlDeleted(glLive, badDeletes, Namespace(k, 1), obj[o].h[1])
           d2 == IF 2 \in Fields(k)
                 THEN GlDeleted(d1.live, d1.bad, Namespace(k, 2),
                                obj[o].h[2])
                 ELSE d1 IN
        /\ glLive' = d2.live
        /\ badDeletes' = d2.bad
    /\ obj' = [obj EXCEPT ![o].state = "destroyed", ![o].h = <<0, 0>>]

ResInit ==
    /\ obj = [o \in Objs |-> Unborn]
    /\ glLive = [ns \in Namespaces |-> {}]
    /\ badDeletes = {}

DoConstruct ==
    /\ \E kind \in Kinds \ {"Texture"} : Construct(kind)
    /\ UNCHANGED nonResVars

DoConstructTexture == ConstructTexture /\ UNCHANGED nonResVars

DoConstructProgramLinkError ==
    ConstructProgramLinkError /\ UNCHANGED nonResVars

DoMoveConstruct ==
    /\ \E src \in Objs : MoveConstruct(src)
    /\ UNCHANGED nonResVars

DoMoveAssign ==
    /\ \E dst \in Objs, src \in Objs : MoveAssign(dst, src)
    /\ UNCHANGED nonResVars

DoDestroy ==
    /\ \E o \in Objs : Destroy(o)
    /\ UNCHANGED nonResVars

(* ------- LoadShader and ShaderProgram::ShaderProgram (renderer.h) ------ *)
\* a source compiles (a program links), or fails with an info log, or
\* fails with none (infoLen <= 1)
Outcomes == {"ok", "error_log", "error_nolog"}

Stages == <<"vertex", "fragment">>

\* glDeleteShader(s): a shader still attached is only flagged for deletion
GlDeleteShader(objs, attached, s) ==
    IF s \in attached THEN objs ELSE objs \ {s}

\* LoadShader lines 19-22: glCreateShader, which may return 0
LoadShaderCreate(i) ==
    /\ shPc = <<"create", i>>
    /\ \/ /\ shObjs' = shObjs \cup {Stages[i]}
          /\ shPc' = <<"compile", i>>
          /\ shExc' = shExc
       \/ /\ shObjs' = shObjs
          /\ shPc' = <<"thrown", i>>
          /\ shExc' = "failed to allocate shader"
    /\ UNCHANGED <<shSrc, shAttached>>

\* LoadShader lines 23-45: compile; on an error delete the shader and throw
LoadShaderCompile(i) ==
    /\ shPc = <<"compile", i>>
    /\ IF shSrc[i] = "ok"
       THEN /\ shPc' = IF i = 1 THEN <<"create", 2>> ELSE <<"program", 0>>
            /\ UNCHANGED <<shObjs, shExc>>
       ELSE /\ shObjs' = GlDeleteShader(shObjs, shAttached, Stages[i])
            /\ shPc' = <<"thrown", i>>
            /\ shExc' = IF shSrc[i] = "error_log"
                        THEN "Error compiling shader {}\n:{}"
                        ELSE "Error compiling shader"
    /\ UNCHANGED <<shSrc, shAttached>>

\* constructor lines 57-60: glCreateProgram, which may return 0
ProgramCreate ==
    /\ shPc = <<"program", 0>>
    /\ \/ /\ shObjs' = shObjs \cup {"program"}
          /\ shPc' = <<"link", 0>>
          /\ shExc' = shExc
       \/ /\ shObjs' = shObjs
          /\ shPc' = <<"thrown", 3>>
          /\ shExc' = "Failed to allocate shader program"
    /\ UNCHANGED <<shSrc, shAttached>>

\* constructor lines 61-63: attach both shaders and link
ProgramLink ==
    /\ shPc = <<"link", 0>>
    /\ shAttached' = {"vertex", "fragment"}
    /\ shPc' = <<"detach", 0>>
    /\ UNCHANGED <<shSrc, shObjs, shExc>>

\* constructor lines 65-68: detach and delete both shaders
ProgramDetachDelete ==
    /\ shPc = <<"detach", 0>>
    /\ shAttached' = {}
    /\ shObjs' = GlDeleteShader(GlDeleteShader(shObjs, {}, "vertex"),
                                {}, "fragment")
    /\ shPc' = <<"status", 0>>
    /\ UNCHANGED <<shSrc, shExc>>

\* constructor lines 70-86: on a link error delete the program and throw
ProgramCheckLink ==
    /\ shPc = <<"status", 0>>
    /\ IF shSrc[3] = "ok"
       THEN /\ shPc' = <<"constructed", 0>>
            /\ UNCHANGED <<shObjs, shExc>>
       ELSE /\ shObjs' = shObjs \ {"program"}
            /\ shPc' = <<"thrown", 4>>
            /\ shExc' = IF shSrc[3] = "error_log"
                        THEN "Error linking shader program:\n:{}"
                        ELSE "Error linking shader program"
    /\ UNCHANGED <<shSrc, shAttached>>

\* no constructor call is made
ShNone ==
    /\ shPc = <<"none", 0>>
    /\ shSrc = <<"ok", "ok", "ok">>
    /\ shObjs = {}
    /\ shAttached = {}
    /\ shExc = ""

\* a call ShaderProgram(vertex_shader, fragment_shader) with any sources
ShInit ==
    /\ shPc = <<"create", 1>>
    /\ shSrc \in Outcomes \X Outcomes \X Outcomes
    /\ shObjs = {}
    /\ shAttached = {}
    /\ shExc = ""

DoLoadShaderCreate ==
    /\ \E i \in {1, 2} : LoadShaderCreate(i)
    /\ UNCHANGED nonShVars

DoLoadShaderCompile ==
    /\ \E i \in {1, 2} : LoadShaderCompile(i)
    /\ UNCHANGED nonShVars

DoProgramCreate == ProgramCreate /\ UNCHANGED nonShVars

DoProgramLink == ProgramLink /\ UNCHANGED nonShVars

DoProgramDetachDelete == ProgramDetachDelete /\ UNCHANGED nonShVars

DoProgramCheckLink == ProgramCheckLink /\ UNCHANGED nonShVars

(* ----------------------- the app (main.cpp:44-102) --------------------- *)
\* an uncaught exception ends the process: no thread takes another step
Running == \A t \in Threads : pc[t] # "terminate"

\* thread t moves from pc value from to pc value to
Goto(t, from, to) ==
    /\ Running
    /\ pc[t] = from
    /\ pc' = [pc EXCEPT ![t] = to]

\* main.cpp:37-38, 75-76, 83-84
window_width == 800
window_height == 600
SquareW == 200
SquareH == 100

\* a should_close that does not read the close flag
ShouldClose_Always == TRUE

\* Window::should_close (window.h:53-55): true while the close flag is NOT
\* set
ShouldClose == closeFlag # TRUE

\* Window::key_callback (window.h:98-103) and GLFW's handling of the close
\* button: the close flag after event e was processed
AfterEvent(flag, e) == flag \/ e \in {"escape_press", "close_button"}

InputEvents == {"escape_press", "other_key", "close_button"}

\* line 46: window::GLFWContext _{} (window.h:116-120)
MainGlfwInit ==
    /\ \/ /\ Goto(MainThread, "m_glfw_init", "m_window")
          /\ glfw' = "init"
          /\ exc' = exc
       \/ /\ Goto(MainThread, "m_glfw_init", "terminate")
          /\ glfw' = glfw
          /\ exc' = [exc EXCEPT ![MainThread] = "Failed to init GLFW"]
    /\ UNCHANGED <<context_out_, current, tokens, nMakeCurrent>>
    /\ UNCHANGED <<windowState, closeFlag, pending, stopRequested,
                   gladLoaded, resources>>
    /\ UNCHANGED <<rendVars, glOps, nonAppVars>>

\* lines 48-51: window::Window window{...} (window.h:24-47)
MainCreateWindow ==
    /\ \/ /\ Goto(MainThread, "m_window", "m_get_context")
          /\ windowState' = "alive"
          /\ exc' = exc
       \/ /\ Goto(MainThread, "m_window", "terminate")
          /\ windowState' = windowState
          /\ exc' = [exc EXCEPT ![MainThread] = "glfwGetError"]
    /\ UNCHANGED <<context_out_, current, tokens, nMakeCurrent>>
    /\ UNCHANGED <<glfw, closeFlag, pending, stopRequested, gladLoaded,
                   resources>>
    /\ UNCHANGED <<rendVars, glOps, nonAppVars>>

\* line 54: auto context = window.get_context()
MainGetContext ==
    /\ Running
    /\ GetContextCAS(MainThread, "m_get_context")
    /\ UNCHANGED <<appVars, rendVars, glOps, nonAppVars>>

MainMakeCurrent ==
    /\ Running
    /\ GetContextMakeCurrent(MainThread)
    /\ UNCHANGED <<appVars, rendVars, glOps, nonAppVars>>

\* line 55: gladLoadGLES2(glfwGetProcAddress)
MainGladLoad ==
    /\ Goto(MainThread, "m_glad_load", "m_scope_end")
    /\ gladLoaded' = TRUE
    /\ UNCHANGED <<context_out_, current, tokens, exc, nMakeCurrent>>
    /\ UNCHANGED <<glfw, windowState, closeFlag, pending, stopRequested,
                   resources>>
    /\ UNCHANGED <<rendVars, glOps, nonAppVars>>

\* line 56: the end of the block destroys the token
MainTokenDtorDetach ==
    /\ Running
    /\ TokenDtorDetach(MainThread, "m_scope_end")
    /\ UNCHANGED <<appVars, rendVars, glOps, nonAppVars>>

MainTokenDtorStore ==
    /\ Running
    /\ pc[MainThread] = "dtor_store"
    /\ TokenDtorStore(MainThread)
    /\ UNCHANGED <<appVars, rendVars, glOps, nonAppVars>>

\* line 58: std::jthread t{...} starts the render thread
MainSpawn ==
    /\ Running
    /\ pc[MainThread] = "m_spawn"
    /\ pc' = [pc EXCEPT ![MainThread] = "m_loop_test",
                        ![RenderThread] = "r_get_context"]
    /\ UNCHANGED <<context_out_, current, tokens, exc, nMakeCurrent>>
    /\ UNCHANGED <<appVars, rendVars, glOps, nonAppVars>>

\* line 97: while (window.should_close())
MainLoopTest ==
    /\ IF ShouldClose
       THEN Goto(MainThread, "m_loop_test", "m_wait_events")
       ELSE Goto(MainThread, "m_loop_test", "m_return")
    /\ UNCHANGED <<context_out_, current, tokens, exc, nMakeCurrent>>
    /\ UNCHANGED <<appVars, rendVars, glOps, nonAppVars>>

\* line 98: glfwWaitEvents() sleeps until an event is pending and runs the
\* callbacks of the pending events
MainWaitEvents ==
    /\ pending # {}
    /\ Goto(MainThread, "m_wait_events", "m_loop_test")
    /\ closeFlag' = (\E e \in pending : AfterEvent(closeFlag, e))
    /\ pending' = {}
    /\ UNCHANGED <<context_out_, current, tokens, exc, nMakeCurrent>>
    /\ UNCHANGED <<glfw, windowState, stopRequested, gladLoaded, resources>>
    /\ UNCHANGED <<rendVars, glOps, nonAppVars>>

\* line 101: return 0 destroys t first: ~jthread requests the stop
MainRequestStop ==
    /\ Goto(MainThread, "m_return", "m_join")
    /\ stopRequested' = TRUE
    /\ UNCHANGED <<context_out_, current, tokens, exc, nMakeCurrent>>
    /\ UNCHANGED <<glfw, windowState, closeFlag, pending, gladLoaded,
                   resources>>
    /\ UNCHANGED <<rendVars, glOps, nonAppVars>>

\* a destructor that would not wait for the render thread
MainJoin_NoWait ==
    /\ Goto(MainThread, "m_join", "m_window_dtor")
    /\ UNCHANGED <<context_out_, current, tokens, exc, nMakeCurrent>>
    /\ UNCHANGED <<appVars, rendVars, glOps, nonAppVars>>

\* ~jthread then joins the render thread
MainJoin ==
    /\ pc[RenderThread] = "r_finished"
    /\ Goto(MainThread, "m_join", "m_window_dtor")
    /\ UNCHANGED <<context_out_, current, tokens, exc, nMakeCurrent>>
    /\ UNCHANGED <<appVars, rendVars, glOps, nonAppVars>>

\* ~Window: glfwDestroyWindow (window.h:110-111)
MainDestroyWindow ==
    /\ Goto(MainThread, "m_window_dtor", "m_glfw_terminate")
    /\ windowState' = "destroyed"
    /\ pending' = {}
    /\ UNCHANGED <<context_out_, current, tokens, exc, nMakeCurrent>>
    /\ UNCHANGED <<glfw, closeFlag, stopRequested, gladLoaded, resources>>
    /\ UNCHANGED <<rendVars, glOps, nonAppVars>>

\* ~GLFWContext: glfwTerminate (window.h:121-123)
MainGlfwTerminate ==
    /\ Goto(MainThread, "m_glfw_terminate", "m_done")
    /\ glfw' = "terminated"
    /\ UNCHANGED <<context_out_, current, tokens, exc, nMakeCurrent>>
    /\ UNCHANGED <<windowState, closeFlag, pending, stopRequested,
                   gladLoaded, resources>>
    /\ UNCHANGED <<rendVars, glOps, nonAppVars>>

\* the user presses a key or clicks the close button of the window
UserInput ==
    /\ Running
    /\ pc[MainThread] \notin {"off", "m_done"}
    /\ windowState = "alive"
    /\ \E e \in InputEvents \ pending : pending' = pending \cup {e}
    /\ UNCHANGED <<ctxVars, rendVars, glOps, resVars, shVars, extVars>>
    /\ UNCHANGED <<glfw, windowState, closeFlag, stopRequested, gladLoaded,
                   resources>>

(* ------------------ the render thread (main.cpp:58-95) ----------------- *)
\* the render thread changes nothing of the Window but its own pc
RenderKeeps ==
    /\ UNCHANGED <<context_out_, current, tokens, exc, nMakeCurrent>>
    /\ UNCHANGED <<glfw, windowState, closeFlag, pending, stopRequested,
                   gladLoaded>>
    /\ UNCHANGED nonAppVars

\* a step of the frame loop that issues the GL call op
RenderGlCall(from, to, op) ==
    /\ Goto(RenderThread, from, to)
    /\ glOps' = Append(glOps, op)
    /\ UNCHANGED <<rendVars, resources>>
    /\ RenderKeeps

\* line 59: auto context = window.get_context()
RenderGetContext ==
    /\ Running
    /\ GetContextCAS(RenderThread, "r_get_context")
    /\ UNCHANGED <<appVars, rendVars, glOps, nonAppVars>>

RenderMakeCurrent ==
    /\ Running
    /\ GetContextMakeCurrent(RenderThread)
    /\ UNCHANGED <<appVars, rendVars, glOps, nonAppVars>>

\* lines 60-74: shaderProgram, quad, tex and square are constructed; the
\* Renderable's position_ and scale_ start with any value
RenderSetup ==
    /\ Goto(RenderThread, "r_setup", "r_set_scale")
    /\ resources' = "live"
    /\ position_' \in PositionArgs
    /\ scale_' \in ScaleArgs
    /\ transform_' = Mat4Identity
    /\ UNCHANGED <<dirty_, u_Transform, lastDraw, setterSince, posCalled,
                   scaleCalled, lastCall, glOps>>
    /\ RenderKeeps

\* lines 75-79: square.set_scale({w, h}); glClearColor(...)
RenderSetScale ==
    /\ Goto(RenderThread, "r_set_scale", "r_loop_test")
    /\ RenderableSetScale(<<Fx(SquareW), Fx(SquareH)>>)
    /\ UNCHANGED <<glOps, resources>>
    /\ RenderKeeps

\* line 80: while (!stop_token.stop_requested()); a frame starts
RenderLoopTest ==
    /\ IF stopRequested
       THEN /\ Goto(RenderThread, "r_loop_test", "r_destroy")
            /\ glOps' = glOps
       ELSE /\ Goto(RenderThread, "r_loop_test", "r_set_position")
            /\ glOps' = <<>>
    /\ UNCHANGED <<rendVars, resources>>
    /\ RenderKeeps

\* lines 81-84: square.set_position(PositionCenter, window centre)
RenderSetPosition ==
    /\ Goto(RenderThread, "r_set_position", "r_viewport")
    /\ RenderableSetPositionCenter(
            <<FxDiv(Fx(window_width), Fx(2)),
              FxDiv(Fx(window_height), Fx(2)), 0>>)
    /\ UNCHANGED <<glOps, resources>>
    /\ RenderKeeps

\* line 86
RenderViewport == RenderGlCall("r_viewport", "r_clear", "glViewport")

\* line 87
RenderClear == RenderGlCall("r_clear", "r_use", "glClear")

\* line 88: shaderProgram.use()
RenderUse == RenderGlCall("r_use", "r_projection", "glUseProgram")

\* line 89: shaderProgram.set_mat4("u_Projection", projectionMatrix)
RenderSetProjection ==
    RenderGlCall("r_projection", "r_draw", "glUniform:u_Projection")

\* line 91: square.draw(shaderProgram)
RenderDraw ==
    /\ Goto(RenderThread, "r_draw", "r_swap")
    /\ RenderableDraw
    /\ glOps' = glOps \o RenderableDrawOps
    /\ UNCHANGED resources
    /\ RenderKeeps

\* line 93: window.swap_buffers()
RenderSwapBuffers == RenderGlCall("r_swap", "r_loop_test", "glfwSwapBuffers")

\* line 95: the lambda returns; square, tex, quad and shaderProgram are
\* destroyed in the reverse order of their construction
RenderDestroyResources ==
    /\ Goto(RenderThread, "r_destroy", "r_token_dtor")
    /\ resources' = "released"
    /\ UNCHANGED <<rendVars, glOps>>
    /\ RenderKeeps

\* and then the token
RenderTokenDtorDetach ==
    /\ Running
    /\ TokenDtorDetach(RenderThread, "r_token_dtor")
    /\ UNCHANGED <<appVars, rendVars, glOps, nonAppVars>>

RenderTokenDtorStore ==
    /\ Running
    /\ pc[RenderThread] = "dtor_store"
    /\ TokenDtorStore(RenderThread)
    /\ UNCHANGED <<appVars, rendVars, glOps, nonAppVars>>

\* the Window and GLFW as the client threads find them
AppNone ==
    /\ glfw = "init"
    /\ windowState = "alive"
    /\ closeFlag = FALSE
    /\ pending = {}
    /\ stopRequested = FALSE
    /\ gladLoaded = FALSE
    /\ resources = "none"

\* the process at the start of main()
AppInit ==
    /\ glfw = "uninit"
    /\ windowState = "none"
    /\ closeFlag = FALSE
    /\ pending = {}
    /\ stopRequested = FALSE
    /\ gladLoaded = FALSE
    /\ resources = "none"

(* ------- ShaderProgram's location caches (renderer.h:92-149) ----------- *)
\* the uniforms each pair of shader sources declares, in the order of
\* their declarations: vert.h with frag.h, vert.h with yuv_fragment_shader
DeclaredUniforms ==
    [rgba |-> <<"u_Transform", "u_Projection", "u_texture">>,
     yuv |-> <<"u_Transform", "u_Projection",
               "u_texture_y", "u_texture_u", "u_texture_v">>]
\* the attributes vert.h declares
DeclaredAttribs == <<"a_position", "a_texCoord">>
ShaderSources == DOMAIN DeclaredUniforms

\* the location of name among the declarations decls of a linked program:
\* -1 when the program has no such name, else the rank of its declaration
\* (a linker may number the names it finds in another way; that a name
\* the program lacks has location -1 is the same for all)
LinkedLocation(decls, name) ==
    IF \E i \in DOMAIN decls : decls[i] = name
    THEN (CHOOSE i \in DOMAIN decls : decls[i] = name) - 1
    ELSE -1

\* the names the callers pass: Renderable::draw and main.cpp pass
\* u_texture and u_Transform
IntUniformNames == {"u_texture"}
Mat4UniformNames == {"u_Transform"}
UniformNames == IntUniformNames \cup Mat4UniformNames
AttribNames == {"a_position"}

ShaderPrograms == 1..MaxShaderPrograms

\* std::unordered_map: the empty map and operator[] assignment
EmptyMap == [k \in {} |-> 0]
MapInsert(m, k, v) == [n \in DOMAIN m \cup {k} |-> IF n = k THEN v ELSE m[n]]

NoShaderProgram ==
    [state |-> "unborn", shaderProgram_ |-> 0,
     m_UniformLocationCache |-> EmptyMap,
     m_AttributeLocationCache |-> EmptyMap]

\* glGetUniformLocation / glGetAttribLocation: the location of name in
\* program; -1 with GL_INVALID_VALUE when program is no program object
GlGetLocation(program, name) ==
    IF program = 0 THEN -1
    ELSE IF name \in AttribNames
         THEN LinkedLocation(DeclaredAttribs, name)
         ELSE LinkedLocation(DeclaredUniforms[glPrograms[program]], name)

\* the program names in use
ProgramsInUse == DOMAIN glPrograms

\* lines 52-87, when nothing fails: a new program object linked from one
\* of the pairs of sources
ShaderProgramConstruct(o) ==
    /\ shaderPrograms[o].state = "unborn"
    /\ \E program \in Names \ ProgramsInUse, sources \in ShaderSources :
        /\ shaderPrograms' = [shaderPrograms EXCEPT
                ![o] = [NoShaderProgram EXCEPT
                            !.state = "alive",
                            !.shaderProgram_ = program]]
        /\ glPrograms' = MapInsert(glPrograms, program, sources)
    /\ UNCHANGED glOps

\* lines 92-94: only shaderProgram_ is taken from other; the caches of the
\* new object are default-initialised, those of other are left as they are
ShaderProgramMoveConstruct(o, other) ==
    /\ shaderPrograms[o].state = "unborn"
    /\ shaderPrograms[other].state = "alive"
    /\ LET x == StdExchange(shaderPrograms[other].shaderProgram_, 0) IN
        shaderPrograms' = [shaderPrograms EXCEPT
            ![other].shaderProgram_ = x.left,
            ![o] = [NoShaderProgram EXCEPT
                        !.state = "alive",
                        !.shaderProgram_ = x.ret]]
    /\ UNCHANGED <<glPrograms, glOps>>

\* lines 96-99: only shaderProgram_ is swapped; both objects keep their
\* caches
ShaderProgramMoveAssign(o, other) ==
    /\ shaderPrograms[o].state = "alive"
    /\ shaderPrograms[other].state = "alive"
    /\ LET x == StdSwap(shaderPrograms[other].shaderProgram_,
                        shaderPrograms[o].shaderProgram_) IN
        shaderPrograms' = [shaderPrograms EXCEPT
            ![other].shaderProgram_ = x[1],
            ![o].shaderProgram_ = x[2]]
    /\ UNCHANGED <<glPrograms, glOps>>

\* lines 127-134 and 137-144: the cached location when there is one, else
\* the one GL returns, which is cached
CachedLocation(o, cache, name) ==
    LET p == shaderPrograms[o] IN
    IF name \in DOMAIN p[cache]
    THEN p[cache][name]
    ELSE GlGetLocation(p.shaderProgram_, name)

GetLocation(o, cache, name) ==
    /\ shaderPrograms[o].state = "alive"
    \* a moved-from object is assigned to or destroyed, never queried
    /\ shaderPrograms[o].shaderProgram_ # 0
    /\ shaderPrograms' = [shaderPrograms EXCEPT
            ![o][cache] = MapInsert(@, name, CachedLocation(o, cache, name))]
    /\ UNCHANGED glPrograms

\* lines 109-115: set_int(name, value); the uniform glUniform1i writes
\* belongs to the program in use and is not part of this state
ShaderProgramSetInt(o, name) ==
    /\ GetLocation(o, "m_UniformLocationCache", name)
    /\ UNCHANGED glOps

\* lines 117-125: set_mat4(name, value)
ShaderProgramSetMat4(o, name) ==
    /\ GetLocation(o, "m_UniformLocationCache", name)
    /\ UNCHANGED glOps

\* lines 127-134: get_attrib_location(name)
ShaderProgramGetAttribLocation(o, name) ==
    /\ GetLocation(o, "m_AttributeLocationCache", name)
    /\ UNCHANGED glOps

\* no ShaderProgram object exists
CacheNone ==
    /\ shaderPrograms = [o \in ShaderPrograms |-> NoShaderProgram]
    /\ glPrograms = EmptyMap

\* everything but the ShaderProgram objects
nonCacheVars == <<nonExtVars, yuvVars, iboVars, texVars, posVars>>

DoShaderProgramConstruct ==
    /\ \E o \in ShaderPrograms : ShaderProgramConstruct(o)
    /\ UNCHANGED nonCacheVars

DoShaderProgramMoveConstruct ==
    /\ \E o, other \in ShaderPrograms : ShaderProgramMoveConstruct(o, other)
    /\ UNCHANGED nonCacheVars

DoShaderProgramMoveAssign ==
    /\ \E o, other \in ShaderPrograms : ShaderProgramMoveAssign(o, other)
    /\ UNCHANGED nonCacheVars

DoSetInt ==
    /\ \E o \in ShaderPrograms, name \in IntUniformNames :
            ShaderProgramSetInt(o, name)
    /\ UNCHANGED nonCacheVars

DoSetMat4 ==
    /\ \E o \in ShaderPrograms, name \in Mat4UniformNames :
            ShaderProgramSetMat4(o, name)
    /\ UNCHANGED nonCacheVars

DoGetAttribLocation ==
    /\ \E o \in ShaderPrograms, name \in AttribNames :
            ShaderProgramGetAttribLocation(o, name)
    /\ UNCHANGED nonCacheVars

(* ----- Renderable<GL_RED>::draw and the samplers (renderer.h:538-558) --- *)
\* the three textures of a GL_RED Renderable (lines 598-600), in the order
\* in which draw binds them
Planes == <<"y", "u", "v">>
\* GL_TEXTURE0, GL_TEXTURE1, GL_TEXTURE2
TextureUnits == {i - 1 : i \in DOMAIN Planes}

\* the sampler2D uniforms of frag.h and of yuv_fragment_shader
Samplers ==
    [rgba |-> {"u_texture"},
     yuv |-> {"u_texture_y", "u_texture_u", "u_texture_v"}]
\* the sampler yuv_fragment_shader reads each plane through
PlaneSampler == [y |-> "u_texture_y", u |-> "u_texture_u", v |-> "u_texture_v"]

\* glUniform1i(location, value) on the program in use: location -1 is
\* ignored, a location that is no sampler's is GL_INVALID_OPERATION
GlUniform1i(values, sources, location, value) ==
    LET decls == DeclaredUniforms[sources] IN
    IF location + 1 \in DOMAIN decls /\ decls[location + 1] \in DOMAIN values
    THEN [values EXCEPT ![decls[location + 1]] = value]
    ELSE values

\* ShaderProgram::set_int(name, value), lines 109-115, on the program in
\* use
SetInt(values, sources, name, value) ==
    GlUniform1i(values, sources,
                LinkedLocation(DeclaredUniforms[sources], name), value)

\* glActiveTexture(GL_TEXTURE0 + unit); texture->bind() (lines 547-552)
BindPlane(units, unit, plane) == [units EXCEPT ![unit] = plane]

\* the GL calls of draw(shader) for format == GL_RED, lines 547-557
RenderableDrawRedOps ==
    <<"glActiveTexture:0", "glBindTexture:y",
      "glActiveTexture:1", "glBindTexture:u",
      "glActiveTexture:2", "glBindTexture:v",
      "glUniform:u_texture", "glUniform:u_Transform">> \o MeshDrawOps

\* draw(shader) for format == GL_RED, lines 538-558
RenderableDrawRed ==
    /\ RenderableDraw
    /\ textureUnits' =
            BindPlane(BindPlane(BindPlane(textureUnits, 0, "y"), 1, "u"),
                      2, "v")
    /\ activeTexture' = 2
    /\ samplers' = SetInt(samplers, shaderInUse, "u_texture", 0)
    /\ glOps' = RenderableDrawRedOps
    /\ UNCHANGED shaderInUse

\* the caller sets a sampler of the program in use: shader.set_int(name,
\* unit)
CallSetSampler ==
    /\ \E name \in Samplers[shaderInUse], unit \in TextureUnits :
            samplers' = SetInt(samplers, shaderInUse, name, unit)
    /\ lastCall' = "set_int"
    /\ UNCHANGED <<position_, scale_, transform_, dirty_, u_Transform,
                   lastDraw, setterSince, posCalled, scaleCalled>>
    /\ UNCHANGED <<shaderInUse, activeTexture, textureUnits, glOps>>
    /\ UNCHANGED <<ctxVars, resVars, shVars, appVars, cacheVars, iboVars,
                   texVars, posVars>>

CallDrawRed ==
    /\ RenderableDrawRed
    /\ UNCHANGED <<ctxVars, resVars, shVars, appVars, cacheVars, iboVars,
                   texVars, posVars>>

\* a freshly linked program is in use: its uniforms are 0, unit 0 is
\* active and nothing is bound
YuvInit ==
    /\ shaderInUse \in ShaderSources
    /\ samplers = [name \in Samplers[shaderInUse] |-> 0]
    /\ activeTexture = 0
    /\ textureUnits = [u \in TextureUnits |-> "none"]

\* no program is in use
YuvNone ==
    /\ shaderInUse = "none"
    /\ samplers = EmptyMap
    /\ activeTexture = 0
    /\ textureUnits = [u \in TextureUnits |-> "none"]

(* ------------------ IndexBuffer (renderer.h:190-233) ------------------- *)
IndexBuffers == 1..MaxIndexBuffers
IndexCounts == 0..MaxIndices

NoIndexBuffer == [state |-> "unborn", ibo_ |-> 0, count_ |-> 0]

\* the buffer names glGenBuffers has handed out
BuffersInUse == {indexBuffers[o].ibo_ : o \in IndexBuffers} \ {0}

\* lines 191-193: glGenBuffers(1, &ibo_); count_ has no initializer and
\* holds any value
IndexBufferConstruct(o) ==
    /\ indexBuffers[o].state = "unborn"
    /\ \E b \in Names \ BuffersInUse, garbage \in IndexCounts :
        indexBuffers' = [indexBuffers EXCEPT
            ![o] = [state |-> "alive", ibo_ |-> b, count_ |-> garbage]]
    /\ UNCHANGED glBuffers

\* lines 202-204: ibo_ is taken from other; count_ is not initialised and
\* holds any value; other keeps its count_
IndexBufferMoveConstruct(o, other) ==
    /\ indexBuffers[o].state = "unborn"
    /\ indexBuffers[other].state = "alive"
    /\ LET x == StdExchange(indexBuffers[other].ibo_, 0) IN
       \E garbage \in IndexCounts :
        indexBuffers' = [indexBuffers EXCEPT
            ![other].ibo_ = x.left,
            ![o] = [state |-> "alive", ibo_ |-> x.ret, count_ |-> garbage]]
    /\ UNCHANGED glBuffers

\* lines 206-209: only ibo_ is swapped
IndexBufferMoveAssign(o, other) ==
    /\ indexBuffers[o].state = "alive"
    /\ indexBuffers[other].state = "alive"
    /\ LET x == StdSwap(indexBuffers[other].ibo_, indexBuffers[o].ibo_) IN
        indexBuffers' = [indexBuffers EXCEPT
            ![other].ibo_ = x[1],
            ![o].ibo_ = x[2]]
    /\ UNCHANGED glBuffers

\* lines 218-224: bind(); count_ = data.size(); glBufferData into the
\* bound buffer, which is GL_INVALID_OPERATION when ibo_ is 0
IndexBufferSetData(o, size) ==
    /\ indexBuffers[o].state = "alive"
    /\ indexBuffers' = [indexBuffers EXCEPT ![o].count_ = size]
    /\ glBuffers' = IF indexBuffers[o].ibo_ = 0 THEN glBuffers
                    ELSE MapInsert(glBuffers, indexBuffers[o].ibo_, size)

\* lines 226-228
IndexBufferGetCount(o) == indexBuffers[o].count_

\* Mesh::draw (lines 440-446): the count passed to glDrawElements
MeshDrawCount(o) == IndexBufferGetCount(o)

\* no IndexBuffer object exists
IboNone ==
    /\ indexBuffers = [o \in IndexBuffers |-> NoIndexBuffer]
    /\ glBuffers = EmptyMap

\* everything but the IndexBuffer objects
nonIboVars == <<nonExtVars, glOps, cacheVars, yuvVars, texVars, posVars>>

DoIndexBufferConstruct ==
    /\ \E o \in IndexBuffers : IndexBufferConstruct(o)
    /\ UNCHANGED nonIboVars

DoIndexBufferMoveConstruct ==
    /\ \E o, other \in IndexBuffers : IndexBufferMoveConstruct(o, other)
    /\ UNCHANGED nonIboVars

DoIndexBufferMoveAssign ==
    /\ \E o, other \in IndexBuffers : IndexBufferMoveAssign(o, other)
    /\ UNCHANGED nonIboVars

DoIndexBufferSetData ==
    /\ \E o \in IndexBuffers, size \in IndexCounts :
            IndexBufferSetData(o, size)
    /\ UNCHANGED nonIboVars

(* ---------- Texture::copy_data (renderer.h:324-380) --------------------- *)
Bytes == 0..MaxByte
BufferSizes == 1..MaxBufferSize

\* the spans passed to copy_data: shorter than, as long as and longer than
\* the buffer
DataArgs == UNION {[1..n -> Bytes] : n \in 0..(MaxBufferSize + 1)}

\* glMapBufferRange(GL_PIXEL_UNPACK_BUFFER, 0, length, ...) on a data store
\* of size bytes: NULL (GL_INVALID_VALUE, GL_INVALID_OPERATION) when the
\* range is longer than the store or empty, and GL may fail to map
GlMapBufferRange(size, length) ==
    IF length > size \/ length = 0 THEN {"null"} ELSE {"mapped", "null"}

\* lines 369-372: std::memcpy(gpuMemory, data.data(), data.size()) when
\* the mapping succeeded
Memcpy(store, gpuMemory, data) ==
    IF gpuMemory = "null" THEN store
    ELSE [i \in DOMAIN store |-> IF i <= Len(data) THEN data[i] ELSE store[i]]

\* lines 373-374: glTexSubImage2D(..., 0, 0, width_, height_, ..., nullptr)
\* replaces the whole image by the bytes at offset 0 of the bound
\* GL_PIXEL_UNPACK_BUFFER
GlTexSubImage2D(image, store) == [i \in DOMAIN image |-> store[i]]

\* copy_data(data), lines 363-380
TextureCopyData(data) ==
    \E gpuMemory \in GlMapBufferRange(Len(staging), Len(data)) :
        /\ staging' = Memcpy(staging, gpuMemory, data)
        /\ texels' = GlTexSubImage2D(texels, staging')
        /\ lastData' = data
        /\ lastMap' = gpuMemory

\* everything but the Texture
nonTexVars == <<nonExtVars, glOps, cacheVars, yuvVars, iboVars, posVars>>

CallCopyData ==
    /\ \E data \in DataArgs :
        /\ Len(data) <= Len(staging) + 1
        /\ TextureCopyData(data)
    /\ UNCHANGED nonTexVars

\* the constructor (lines 324-354): glBufferData(..., buffer_size_,
\* nullptr, ...) and glTexImage2D(..., nullptr) allocate the data store
\* and the image and leave their contents undefined: they hold any bytes
TexInit ==
    /\ \E size \in BufferSizes :
        /\ staging \in [1..size -> Bytes]
        /\ texels \in [1..size -> Bytes]
    /\ lastData = <<>>
    /\ lastMap = "none"

\* no Texture exists
TexNone ==
    /\ texels = <<>>
    /\ staging = <<>>
    /\ lastData = <<>>
    /\ lastMap = "none"

\* the classes checked on their own are not in use
ExtNone ==
    /\ CacheNone
    /\ YuvNone
    /\ IboNone
    /\ TexNone
    /\ PosNone

(* ========================= the specifications ========================= *)
\* no thread runs
CtxOff ==
    /\ CtxInit
    /\ pc = [t \in Threads |-> "off"]

\* client threads calling get_context() and destroying their tokens
Init ==
    /\ CtxInit
    /\ pc = [t \in Threads |-> IF t \in Clients THEN "idle" ELSE "off"]
    /\ RendNone
    /\ glOps = <<>>
    /\ ResInit
    /\ ShNone
    /\ AppNone
    /\ ExtNone

Next ==
    \/ \E t \in Clients : ClientGetContext(t)
    \/ \E t \in Clients : ClientMakeCurrent(t)
    \/ \E t \in Clients : ClientDestroyToken(t)
    \/ \E t \in Clients : ClientDtorStore(t)
    \/ \E t \in Clients : ClientCatch(t)

Spec == Init /\ [][Next]_vars

\* one Renderable under any sequence of calls
InitRend ==
    /\ RendInit
    /\ glOps = <<>>
    /\ CtxOff
    /\ ResInit
    /\ ShNone
    /\ AppNone
    /\ ExtNone

NextRend ==
    \/ CallSetPositionCenter
    \/ CallSetPositionTopLeft
    \/ CallSetScale
    \/ CallDraw

SpecRend == InitRend /\ [][NextRend]_vars

\* wrapper objects under any sequence of constructions, moves and
\* destructions
InitRes ==
    /\ ResInit
    /\ ShNone
    /\ AppNone
    /\ ShNone
    /\ RendNone
    /\ glOps = <<>>
    /\ CtxOff
    /\ ExtNone

NextRes ==
    \/ DoConstruct
    \/ DoConstructTexture
    \/ DoConstructProgramLinkError
    \/ DoMoveConstruct
    \/ DoMoveAssign
    \/ DoDestroy

SpecRes == InitRes /\ [][NextRes]_vars

\* one call of ShaderProgram's constructor, for any pair of sources and
\* any outcome of the allocations
InitShader ==
    /\ ShInit
    /\ AppNone
    /\ ResInit
    /\ RendNone
    /\ glOps = <<>>
    /\ CtxOff
    /\ ExtNone

NextShader ==
    \/ DoLoadShaderCreate
    \/ DoLoadShaderCompile
    \/ DoProgramCreate
    \/ DoProgramLink
    \/ DoProgramDetachDelete
    \/ DoProgramCheckLink

SpecShader == InitShader /\ [][NextShader]_vars

\* the app: main() and its render thread
InitApp ==
    /\ AppInit
    /\ CtxInit
    /\ pc = [t \in Threads |->
                IF t = MainThread THEN "m_glfw_init"
                ELSE IF t = RenderThread THEN "unstarted" ELSE "off"]
    /\ RendNone
    /\ glOps = <<>>
    /\ ResInit
    /\ ShNone
    /\ ExtNone

NextApp ==
    \/ MainGlfwInit
    \/ MainCreateWindow
    \/ MainGetContext
    \/ MainMakeCurrent
    \/ MainGladLoad
    \/ MainTokenDtorDetach
    \/ MainTokenDtorStore
    \/ MainSpawn
    \/ MainLoopTest
    \/ MainWaitEvents
    \/ MainRequestStop
    \/ MainJoin
    \/ MainDestroyWindow
    \/ MainGlfwTerminate
    \/ UserInput
    \/ RenderGetContext
    \/ RenderMakeCurrent
    \/ RenderSetup
    \/ RenderSetScale
    \/ RenderLoopTest
    \/ RenderSetPosition
    \/ RenderViewport
    \/ RenderClear
    \/ RenderUse
    \/ RenderSetProjection
    \/ RenderDraw
    \/ RenderSwapBuffers
    \/ RenderDestroyResources
    \/ RenderTokenDtorDetach
    \/ RenderTokenDtorStore

SpecApp == InitApp /\ [][NextApp]_vars

\* the steps of main() and those of the render thread
MainNext ==
    \/ MainGlfwInit
    \/ MainCreateWindow
    \/ MainGetContext
    \/ MainMakeCurrent
    \/ MainGladLoad
    \/ MainTokenDtorDetach
    \/ MainTokenDtorStore
    \/ MainSpawn
    \/ MainLoopTest
    \/ MainWaitEvents
    \/ MainRequestStop
    \/ MainJoin
    \/ MainDestroyWindow
    \/ MainGlfwTerminate

RenderNext ==
    \/ RenderGetContext
    \/ RenderMakeCurrent
    \/ RenderSetup
    \/ RenderSetScale
    \/ RenderLoopTest
    \/ RenderSetPosition
    \/ RenderViewport
    \/ RenderClear
    \/ RenderUse
    \/ RenderSetProjection
    \/ RenderDraw
    \/ RenderSwapBuffers
    \/ RenderDestroyResources
    \/ RenderTokenDtorDetach
    \/ RenderTokenDtorStore

\* the app when each thread that can take a step is scheduled in the end
\* and every GL and GLFW call of the render thread returns; glfwWaitEvents
\* returns once an event is pending; the user is not bound to do anything
SpecAppFair ==
    /\ InitApp
    /\ [][NextApp]_vars
    /\ WF_vars(MainNext)
    /\ WF_vars(RenderNext)

\* the client threads and the app, each from its own initial state
InitAll == Init \/ InitApp

NextAll ==
    \/ Next
    \/ NextApp

SpecAll == InitAll /\ [][NextAll]_vars

\* ShaderProgram objects under any sequence of constructions, moves and
\* location queries
InitCache ==
    /\ CacheNone
    /\ YuvNone
    /\ IboNone
    /\ glOps = <<>>
    /\ CtxOff
    /\ RendNone
    /\ ResInit
    /\ ShNone
    /\ AppNone
    /\ TexNone
    /\ PosNone

NextCache ==
    \/ DoShaderProgramConstruct
    \/ DoShaderProgramMoveConstruct
    \/ DoShaderProgramMoveAssign
    \/ DoSetInt
    \/ DoSetMat4
    \/ DoGetAttribLocation

SpecCache == InitCache /\ [][NextCache]_vars


\* a three-plane Renderable drawn with a program whose samplers the
\* caller may have set
InitYuv ==
    /\ YuvInit
    /\ RendInit
    /\ glOps = <<>>
    /\ CacheNone
    /\ IboNone
    /\ CtxOff
    /\ ResInit
    /\ ShNone
    /\ AppNone
    /\ TexNone
    /\ PosNone

NextYuv ==
    \/ CallSetSampler
    \/ CallDrawRed

SpecYuv == InitYuv /\ [][NextYuv]_vars

\* IndexBuffer objects under any sequence of constructions, moves and
\* uploads
InitIbo ==
    /\ IboNone
    /\ CacheNone
    /\ YuvNone
    /\ glOps = <<>>
    /\ CtxOff
    /\ RendNone
    /\ ResInit
    /\ ShNone
    /\ AppNone
    /\ TexNone
    /\ PosNone

NextIbo ==
    \/ DoIndexBufferConstruct
    \/ DoIndexBufferMoveConstruct
    \/ DoIndexBufferMoveAssign
    \/ DoIndexBufferSetData

SpecIbo == InitIbo /\ [][NextIbo]_vars

\* one Texture under any sequence of copy_data calls
InitTex ==
    /\ TexInit
    /\ IboNone
    /\ CacheNone
    /\ YuvNone
    /\ glOps = <<>>
    /\ CtxOff
    /\ RendNone
    /\ ResInit
    /\ ShNone
    /\ AppNone
    /\ PosNone

NextTex ==
    \/ CallCopyData

SpecTex == InitTex /\ [][NextTex]_vars

\* one Renderable under any sequence of calls of its setters
InitPos ==
    /\ RendInit
    /\ PosNone
    /\ TexNone
    /\ IboNone
    /\ CacheNone
    /\ YuvNone
    /\ glOps = <<>>
    /\ CtxOff
    /\ ResInit
    /\ ShNone
    /\ AppNone

NextPos ==
    \/ PosSetPositionTopLeft
    \/ PosSetPositionCenter
    \/ PosSetScale

SpecPos == InitPos /\ [][NextPos]_vars

(* ============================ the claims =============================== *)
QuadCorners == {<<x, y, 0, FxOne>> : x \in {-1, 1}, y \in {-1, 1}}

\* C7 (as stated): set_position and set_scale mark the matrix dirty, and a
\* draw recomputes the matrix only when a setter was called since the
\* previous draw, reusing the cached matrix otherwise.
C7_LazyInvalidation ==
    /\ (lastCall \in {"set_position", "set_scale"} => dirty_)
    /\ lastDraw # "recomputed_without_setter"

\* C8: once set_position and set_scale have both been called, the matrix a
\* draw sends as u_Transform maps every corner v of the quad to
\* position + scale * v for the position and scale held at that draw.
C8_TransformIsCurrent ==
    (lastCall = "draw" /\ posCalled /\ scaleCalled) =>
        \A v \in QuadCorners :
            MatVec(u_Transform, v) =
                <<position_[1] + FxMul(scale_[1], v[1]),
                  position_[2] + FxMul(scale_[2], v[2]),
                  position_[3], FxOne>>

\* a draw made after the position and the scale were both changed since the
\* draw before it
C8_Witness ==
    /\ lastCall = "draw" /\ posCalled /\ scaleCalled
    /\ lastDraw = "recomputed_after_setter"
    /\ u_Transform # Mat4Identity
    /\ position_[1] # position_[2]
    /\ scale_[1] # scale_[2]

\* the threads that hold a live token: acquired by a successful
\* get_context() and not yet released by the token's destructor
Holders == {t \in Threads : tokens[t] > 0}

\* thread t calls get_context() in this step
GetContextStep(t) ==
    /\ pc[t] \in {"idle", "m_get_context", "r_get_context"}
    /\ pc'[t] \in {"gc_make_current", AfterThrow(t)}

\* C1: at most one OpenGLContext token of the Window is live at any moment,
\* whatever the interleaving of get_context() calls and token destructions.
C1_AtMostOneToken ==
    /\ Cardinality(Holders) <= 1
    /\ \A t \in Threads : tokens[t] <= 1

\* one thread holds the token after two others had it, and a get_context()
\* call of another thread has been refused
C1_Witness ==
    \E t \in Clients, u \in Clients :
        /\ t # u
        /\ tokens[t] = 1 /\ pc[t] = "idle"
        /\ pc[u] = "thrown"
        /\ nMakeCurrent >= 5

\* C2: a get_context() call made while a token is live throws
\* std::runtime_error("OpenGL context already acquired!") and changes
\* nothing: context_out_ stays true, glfwMakeContextCurrent is not called
\* and the context stays current where it was.
C2_RefusedCallChangesNothing ==
    [][\A t \in Threads :
        (GetContextStep(t) /\ Holders # {}) =>
            /\ pc'[t] = AfterThrow(t)
            /\ exc'[t] = AlreadyAcquired
            /\ context_out_ /\ context_out_'
            /\ nMakeCurrent' = nMakeCurrent
            /\ current' = current
            /\ tokens' = tokens]_vars

\* a call refused while the context is current on the holder's thread
C2_Witness ==
    \E t \in Clients, u \in Clients :
        /\ t # u
        /\ pc[t] = "thrown" /\ exc[t] = AlreadyAcquired
        /\ tokens[u] = 1 /\ current[u] /\ context_out_

\* C10: the Window's GL context is current on at most one thread at any
\* moment, each token being destroyed on the thread that acquired it.
C10_CurrentOnOneThread ==
    Cardinality({t \in Threads : current[t]}) <= 1

\* the context is current on one thread after it was current on, and
\* detached from, another
C10_Witness ==
    \E t \in Clients, u \in Clients :
        /\ t # u
        /\ current[t] /\ tokens[t] = 1
        /\ exc[u] = AlreadyAcquired /\ pc[u] = "idle"
        /\ nMakeCurrent = 3

\* the handle fields of the live wrappers
LiveFields ==
    {<<o, f>> \in Objs \X {1, 2} :
        obj[o].state = "live" /\ f \in Fields(obj[o].kind)}

\* object o is move-constructed from object src in this step
MoveConstructStep(src, o) ==
    /\ obj[o].state = "unborn"
    /\ obj'[o].state = "live" /\ obj'[o].moved
    /\ obj[src].state = "live"
    /\ obj[src].kind = obj'[o].kind
    /\ obj[src].h = obj'[o].h

\* C4: no non-zero GPU handle is held by two live wrapper objects at the
\* same time, and the source of a move construction holds handle 0.
C4_ExclusiveHandles ==
    /\ [](\A a \in LiveFields, b \in LiveFields :
            (/\ a # b
             /\ Namespace(obj[a[1]].kind, a[2])
                    = Namespace(obj[b[1]].kind, b[2])
             /\ obj[a[1]].h[a[2]] # 0)
            => obj[a[1]].h[a[2]] # obj[b[1]].h[b[2]])
    /\ [][\A o \in Objs :
            (obj[o].state = "unborn" /\ obj'[o].state = "live"
                /\ obj'[o].moved)
            => \E src \in Objs :
                    MoveConstructStep(src, o) /\ obj'[src].h = <<0, 0>>]_vars

\* a Texture move-constructed from a Texture that held a texture and a
\* buffer and now holds none, next to a live buffer wrapper holding
\* another buffer
C4_Witness ==
    \E o \in Objs, src \in Objs, v \in Objs :
        /\ obj[o].state = "live" /\ obj[o].moved
        /\ obj[o].kind = "Texture"
        /\ obj[o].h[1] # 0 /\ obj[o].h[2] # 0
        /\ obj[src].state = "live" /\ obj[src].kind = "Texture"
        /\ obj[src].h = <<0, 0>>
        /\ obj[v].state = "live"
        /\ obj[v].kind \in {"VertexBuffer", "IndexBuffer"}
        /\ obj[v].h[1] # 0

NoneLive == \A o \in Objs : obj[o].state # "live"

C6_NothingOutlivesFailure ==
    (shPc[1] = "thrown" /\ shExc # "failed to allocate shader")
        => shObjs = {}

\* C3: destroying a token re-enables acquisition: a get_context() call made
\* when no token is live succeeds, on whatever thread; and in the app
\* neither main's nor the render thread's get_context() ever throws.
C3_ReleaseReenables ==
    /\ [][\A t \in Threads :
            (GetContextStep(t) /\ Holders = {}) =>
                (pc'[t] = "gc_make_current" /\ tokens'[t] = 1)]_vars
    /\ [](\A t \in {MainThread, RenderThread} : exc[t] # AlreadyAcquired)

\* the render thread holds the token after main acquired and released its
\* own for gladLoadGLES2
C3_Witness ==
    /\ gladLoaded
    /\ tokens[MainThread] = 0
    /\ tokens[RenderThread] = 1
    /\ pc[RenderThread] = "r_setup"

\* the place of a GL call in the order clear, use shader, set uniforms,
\* bind textures, draw, swap buffers
Phase(op) ==
    CASE op = "glViewport" -> 0
      [] op = "glClear" -> 1
      [] op = "glUseProgram" -> 2
      [] op \in {"glUniform:u_Projection", "glUniform:u_texture",
                 "glUniform:u_Transform"} -> 3
      [] op \in {"glActiveTexture:0", "glBindTexture:y"} -> 4
      [] op \in {"glBindVertexArray", "glBindBuffer:ibo",
                 "glDrawElements"} -> 5
      [] op = "glfwSwapBuffers" -> 6

DrawCalls == {i \in DOMAIN glOps : glOps[i] = "glDrawElements"}

FrameComplete ==
    glOps # <<>> /\ glOps[Len(glOps)] = "glfwSwapBuffers"

\* C9 (as stated): in every frame the GL calls come in the order clear, use
\* shader, set uniforms, bind textures, one draw call, swap buffers, all
\* uniforms being set before any texture is bound.
C9_UniformsBeforeTextures ==
    /\ \A i \in DOMAIN glOps, j \in DOMAIN glOps :
        i < j => Phase(glOps[i]) <= Phase(glOps[j])
    /\ Cardinality(DrawCalls) <= 1
    /\ FrameComplete => Cardinality(DrawCalls) = 1

\* the GL calls of one frame, in order
FrameOrder ==
    <<"glViewport", "glClear", "glUseProgram", "glUniform:u_Projection",
      "glActiveTexture:0", "glBindTexture:y", "glUniform:u_texture",
      "glUniform:u_Transform", "glBindVertexArray", "glBindBuffer:ibo",
      "glDrawElements", "glfwSwapBuffers">>

\* C9 (amended): in every frame the GL calls come in the order viewport,
\* clear, use shader, set u_Projection, bind the texture, set u_texture and
\* u_Transform, one draw call, swap buffers; a frame is never mixed with
\* another.
C9_FrameOrder ==
    /\ Len(glOps) <= Len(FrameOrder)
    /\ glOps = SubSeq(FrameOrder, 1, Len(glOps))
    /\ FrameComplete => glOps = FrameOrder

\* a frame has been completed: drawn once and swapped
C9_Witness ==
    /\ FrameComplete
    /\ pc[RenderThread] = "r_loop_test"
    /\ Cardinality(DrawCalls) = 1
    /\ lastDraw = "recomputed_after_setter"
    /\ u_Transform # <<>>

(* ---------------------------------------------------------------------- *)
\* the order in which main() and the render thread give up what they hold
TeardownState ==
    \* the GLFWContext is created before the Window
    /\ windowState # "none" => glfw # "uninit"
    \* and is alive for the Window's whole lifetime
    /\ windowState = "alive" => glfw = "init"
    /\ glfw = "terminated" => windowState = "destroyed"
    \* the Window is destroyed after the render thread was joined
    /\ windowState = "destroyed" => pc[RenderThread] = "r_finished"
    /\ pc[MainThread] \in {"m_window_dtor", "m_glfw_terminate", "m_done"}
        => pc[RenderThread] = "r_finished"
    \* the render thread finishes after it released its token, and it
    \* released its token after its resources
    /\ pc[RenderThread] = "r_finished"
        => tokens[RenderThread] = 0 /\ resources = "released"
    /\ resources = "live" => tokens[RenderThread] = 1
    /\ resources = "released" /\ tokens[RenderThread] = 0
        => pc[RenderThread] = "r_finished"

TeardownStep ==
    \* the resources are released while the token is live and the context
    \* is current on the render thread
    /\ resources' # resources /\ resources' = "released"
        => /\ resources = "live"
           /\ tokens[RenderThread] = 1 /\ tokens'[RenderThread] = 1
           /\ current[RenderThread] /\ context_out_
    \* the token is released after the resources
    /\ tokens'[RenderThread] < tokens[RenderThread]
        => resources = "released" /\ windowState = "alive"
    /\ windowState' # windowState /\ windowState' = "destroyed"
        => glfw = "init" /\ glfw' = "init"
    /\ glfw' # glfw /\ glfw' = "terminated" => windowState = "destroyed"

\* C11: on every run of the app the render thread's resources are released
\* while its token is live, then the token is released, then the render
\* thread is joined, then the Window is destroyed, then GLFW is terminated;
\* GLFW is initialised before the Window is created and stays initialised
\* while the Window exists
C11_TeardownOrder ==
    /\ []TeardownState
    /\ [][TeardownStep]_vars

\* main() has returned after a complete teardown
C11_Witness ==
    /\ pc[MainThread] = "m_done"
    /\ pc[RenderThread] = "r_finished"
    /\ resources = "released"
    /\ tokens[RenderThread] = 0
    /\ windowState = "destroyed"
    /\ glfw = "terminated"

(* ---------------------------------------------------------------------- *)
\* the cached locations of object o agree with the program it holds
CacheCoherent(o, cache) ==
    LET p == shaderPrograms[o] IN
    \A name \in DOMAIN p[cache] :
        p[cache][name] = GlGetLocation(p.shaderProgram_, name)

\* C12: every location a ShaderProgram object has cached for a name is the
\* location of that name in the program the object holds now
C12_CacheCoherent ==
    \A o \in ShaderPrograms :
        shaderPrograms[o].state = "alive" /\ shaderPrograms[o].shaderProgram_ # 0
            => /\ CacheCoherent(o, "m_UniformLocationCache")
               /\ CacheCoherent(o, "m_AttributeLocationCache")

(* ---------------------------------------------------------------------- *)
\* C13: after a three-plane Renderable was drawn with the YUV program, the
\* planes Y, U and V are bound to the units 0, 1 and 2 and each sampler of
\* the YUV fragment shader holds the unit of its plane
C13_SamplersReadOwnPlane ==
    (lastCall = "draw" /\ shaderInUse = "yuv")
        => \A i \in DOMAIN Planes :
                /\ textureUnits[i - 1] = Planes[i]
                /\ samplers[PlaneSampler[Planes[i]]] = i - 1

(* ---------------------------------------------------------------------- *)
\* C14: get_count() of an IndexBuffer object, which Mesh::draw passes to
\* glDrawElements, is the number of indices last uploaded into the buffer
\* the object holds
C14_CountDescribesHandle ==
    \A o \in IndexBuffers :
        LET b == indexBuffers[o] IN
        (b.state = "alive" /\ b.ibo_ \in DOMAIN glBuffers)
            => MeshDrawCount(o) = glBuffers[b.ibo_]

(* ---------------------------------------------------------------------- *)
\* main() has left its event loop
MainLoopExited ==
    pc[MainThread] \in {"m_return", "m_join", "m_window_dtor",
                        "m_glfw_terminate", "m_done"}

\* the render thread has left its frame loop
FrameLoopLeft ==
    pc[RenderThread] \in {"r_destroy", "r_token_dtor", "dtor_store",
                          "r_finished"}

\* C15: once Escape is pressed or the close flag is set, the main loop
\* exits, the render thread leaves its frame loop and finishes, and main
\* returns; the main loop does not exit while the close flag is not set
C15_TerminatesOnClose ==
    /\ ("escape_press" \in pending) ~> closeFlag
    /\ closeFlag ~> MainLoopExited
    /\ closeFlag ~> (stopRequested /\ FrameLoopLeft)
    /\ closeFlag ~> (pc[RenderThread] = "r_finished")
    /\ closeFlag ~> (pc[MainThread] = "m_done")
    /\ [](MainLoopExited => closeFlag)

\* Escape was pressed while the frame loop ran, and main() returned
C15_Witness ==
    /\ closeFlag
    /\ stopRequested
    /\ lastDraw # "none"
    /\ pc[MainThread] = "m_done"
    /\ pc[RenderThread] = "r_finished"

(* ---------------------------------------------------------------------- *)
\* C16: a copy_data(data) leaves in every byte of the texture either the
\* byte data supplies for it or the byte the texture held before the call
C16_SuppliedOrUnchanged ==
    [][\A i \in DOMAIN texels :
            \/ i \in DOMAIN lastData' /\ texels'[i] = lastData'[i]
            \/ texels'[i] = texels[i]]_vars

(* ---------------------------------------------------------------------- *)
\* after set_position(PositionTopLeft, p): get_position(PositionTopLeft)
\* is p and get_position(PositionCenter) is a whole number nearest to
\* p + scale / 2
RoundTrip(p) ==
    LET top_left == RenderableGetPositionTopLeft
        center == RenderableGetPositionCenter
    IN  \A i \in 1..2 :
            /\ IsUint32(top_left[i]) /\ IsUint32(center[i])
            /\ Fx(top_left[i]) = p[i]
            /\ 2 * Abs(Fx(center[i]) - (p[i] + FxDiv(scale_[i], Fx(2))))
                    <= FxOne

\* set_scale leaves get_position(PositionCenter) as it was
SetScaleKeepsCenter ==
    lastCall' = "set_scale"
        => RenderableGetPositionCenter' = RenderableGetPositionCenter

\* p + scale / 2 is below 2^(FloatDigits - 1), where every half is a float
HalvesAreFloats(p) ==
    \A i \in 1..2 : p[i] + FxDiv(scale_[i], Fx(2)) < 2^FloatDigits

\* C17 as stated: for every non-negative whole p, set_position(
\* PositionTopLeft, p) followed by get_position(PositionTopLeft) returns p
\* and get_position(PositionCenter) returns p + scale / 2 rounded; set_scale
\* does not change get_position(PositionCenter)
C17_RoundTrip ==
    /\ [](lastTopLeft # <<>> => RoundTrip(lastTopLeft))
    /\ [][SetScaleKeepsCenter]_vars

\* C17: the same for the p and scales with p + scale / 2 below 2^23 pixels
C17_RoundTripOfExactHalves ==
    /\ [](lastTopLeft # <<>> /\ HalvesAreFloats(lastTopLeft)
            => RoundTrip(lastTopLeft))
    /\ [][SetScaleKeepsCenter]_vars

\* set_position(PositionTopLeft, (1, 0)) of a Renderable one pixel wide:
\* the centre is at 1.5 and get_position(PositionCenter) returns 2
C17_Witness ==
    /\ lastTopLeft = <<Fx(1), 0, 0>>
    /\ scale_[1] = Fx(1)
    /\ position_[1] = Fx(1) + 1
    /\ RenderableGetPositionTopLeft[1] = 1
    /\ RenderableGetPositionCenter[1] = 2

====
